---- MODULE Spec2Model ----
(***************************************************************************)
(* Token lifecycle of the auth server: login, rotation (refresh), logout   *)
(* and protected access, each an HTTP handler that runs concurrently with   *)
(* the others and talks to the auth_tokens table one SQL statement at a     *)
(* time (no transaction is opened anywhere in the code).                    *)
(***************************************************************************)
EXTENDS Integers, FiniteSets, Sequences, TLC

\* ---------------------------------------------------------------- bounds
\* Requests served in one behaviour; any number of them may be in flight at
\* the same time.
MaxReqs == 2
\* The clock runs from 0 to MaxTime.
MaxTime == 2

Procs == 1..MaxReqs

\* ------------------------------------------------------------ constants
\* TokenConf.AccessTokenDuration, in clock ticks (one tick = the default "15m").
AccessTokenDuration == 1

\* ------------------------------------------------------------- secrets
\* A secret is a string; the model keeps what matters of it: which
\* GenerateAuthTokens call drew it and for which field. The empty string is
\* the empty sequence, and Forged is a string no generator call ever returned.
Empty == <<>>
Forged == <<"forged", 0>>
AccessOf(g) == <<"access", g>>
RefreshOf(g) == <<"refresh", g>>
CSRFOf(g) == <<"csrf", g>>

\* A password check that accepts every password.
CheckPasswordHashAny(password, hash) == TRUE

\* auth.HashPassword / auth.CheckPasswordHash (bcrypt): the hash determines
\* the password it was made from.
HashPassword(password) == <<"bcrypt", password>>
CheckPasswordHash(password, hash) == hash = HashPassword(password)

\* ValidateRefreshToken: subtle.ConstantTimeCompare(...) == 1, i.e. equal
\* length and equal bytes.
ValidateRefreshToken(providedToken, storedToken) == providedToken = storedToken

\* --------------------------------------------------------------- state
VARIABLES
    users,       \* table users: rows [id, username, hashed_password]
    authTokens,  \* table auth_tokens: rows [user_id, access_token, refresh_token, csrf_token, expires_at]
    now,         \* time.Now()
    nextGen,     \* number of the next GenerateAuthTokens call
    reqs,        \* reqs[p]: request p, its handler's position and locals, its response
    loggedOut,   \* history: owners whose last completed login or logout is a logout
    database,    \* src/main.go: var database = map[string]Login{}
    cfg,         \* cmd/server/main.go: cfg, err := config.Load(), and the environment it reads
    cmp,         \* a comparison of two strings in progress
    srv          \* api/server.go: Server.Start, its goroutine and its channels

vars == <<users, authTokens, now, nextGen, reqs, loggedOut, database, cfg, cmp, srv>>

\* The nil *AuthToken and the zero auth.Tokens.
NoRow == [user_id |-> 0, access_token |-> Empty, refresh_token |-> Empty,
          csrf_token |-> Empty, expires_at |-> 0]

\* A request that has not arrived.
Idle == [kind |-> "none", pc |-> "idle",
         username |-> "", password |-> "",
         access |-> Empty, csrf |-> Empty, refresh |-> Empty,
         userId |-> 0, token |-> NoRow, tokens |-> NoRow, deleted |-> {},
         seen |-> "none", owner |-> 0, gap |-> FALSE, fault |-> FALSE, matched |-> "",
         calls |-> <<>>,
         status |-> 0, msg |-> "", body |-> NoRow, at |-> 0]

\* The usernames and passwords that requests carry (each at least as long as
\* Register demands); the first two usernames are registered.
Usernames == {"username1", "username2", "username3"}
Passwords == {"password1", "wrongpass"}
InitUsers == {[id |-> 1, username |-> "username1", hashed_password |-> HashPassword("password1")],
              [id |-> 2, username |-> "username2", hashed_password |-> HashPassword("password1")]}

\* The bundle of a session that user 1 opened at time 0, before the requests
\* of the behaviour: generator call 0.
Session0 == [user_id |-> 1, access_token |-> AccessOf(0), refresh_token |-> RefreshOf(0),
             csrf_token |-> CSRFOf(0), expires_at |-> AccessTokenDuration]

\* The map of src/main.go when that program is not the one running.
NoDatabase == [u \in {} |-> NoRow]

\* The configuration of a server started with ACCESS_TOKEN_DURATION unset:
\* Load has returned DefaultTokenConfig's 15 minutes.
DefaultCfg == [ACCESS_TOKEN_DURATION |-> <<>>, loaded |-> "ok",
               AccessTokenDuration |-> AccessTokenDuration]

\* No comparison in progress.
NoCmp == [op |-> "none", x |-> <<>>, y |-> <<>>, i |-> 0, v |-> 0, result |-> "none"]

\* Server.Start blocked in its select while its goroutine is inside
\* ListenAndServe, serving: main is the position of Start, listener that of
\* the goroutine, err the value ListenAndServe returned, result the value
\* Start returned ("" while it has not), via the select branch taken.
Serve == [main |-> "select", listener |-> "Serve", errChan |-> <<>>, stop |-> <<>>,
          err |-> "", result |-> "", via |-> "", inShutdown |-> FALSE]

\* The server starts on the database as earlier runs left it: the users are
\* registered, and user 1 is logged in or nobody is.
Init ==
    /\ cfg = DefaultCfg
    /\ cmp = NoCmp
    /\ srv = Serve
    /\ database = NoDatabase
    /\ users = InitUsers
    /\ authTokens \in {{}, {Session0}}
    /\ now = 0
    /\ nextGen = 1
    /\ reqs = [p \in Procs |-> Idle]
    /\ loggedOut = {}

\* ------------------------------------------------------- store queries
\* SELECT ... FROM users WHERE username = $1 (username is UNIQUE).
GetUserByUsername(username) == {u \in users : u.username = username}

\* SELECT ... FROM auth_tokens t JOIN users u ON t.user_id = u.id
\* WHERE t.access_token = $1 (access_token is UNIQUE: at most one row).
GetAuthTokensByAccessToken(accessToken) ==
    {t \in authTokens : /\ t.access_token = accessToken
                        /\ \E u \in users : u.id = t.user_id}

\* The same with WHERE t.refresh_token = $1.
GetAuthTokensByRefreshToken(refreshToken) ==
    {t \in authTokens : /\ t.refresh_token = refreshToken
                        /\ \E u \in users : u.id = t.user_id}

\* The first definition of GetAuthTokensByRefreshToken in postgres.go:
\* "return nil, nil, nil".
GetAuthTokensByRefreshTokenStub(refreshToken) == {}

\* u.username of the users row joined to a token row.
Username(id) == (CHOOSE u \in users : u.id = id).username

\* A DELETE whose WHERE clause matches no row.
DeleteNone(userID) == authTokens

\* An UPDATE in the place of the DELETE: the rows of the user stay, with a
\* later expiry.
ExtendWhereUser(userID) ==
    {IF t.user_id = userID THEN [t EXCEPT !.expires_at = @ + 1] ELSE t : t \in authTokens}

\* DELETE FROM auth_tokens WHERE user_id = $1: the table afterwards.
DeleteWhereUser(userID) == {t \in authTokens : t.user_id # userID}

\* The INSERT under a schema whose refresh_token column is not UNIQUE.
InsertAcceptedAccessOnly(row) ==
    \A t \in authTokens : t.access_token # row.access_token

\* INSERT INTO auth_tokens: the UNIQUE constraints on access_token and
\* refresh_token of the schema decide whether the row is accepted.
InsertAccepted(row) ==
    \A t \in authTokens : /\ t.access_token # row.access_token
                          /\ t.refresh_token # row.refresh_token

\* A generator that returns the CSRF secret of its previous call.
GenerateAuthTokensStaleCSRF(g) ==
    [user_id |-> 0, access_token |-> AccessOf(g), refresh_token |-> RefreshOf(g),
     csrf_token |-> CSRFOf(g - 1), expires_at |-> now + AccessTokenDuration]

\* A generator whose access secret is the same at every call.
GenerateAuthTokensSameAccess(g) ==
    [user_id |-> 0, access_token |-> AccessOf(0), refresh_token |-> RefreshOf(g),
     csrf_token |-> CSRFOf(g), expires_at |-> now + AccessTokenDuration]

\* A generator that returns, with its error, the secrets it had drawn before
\* the failing GenerateToken call.
GenerateAuthTokensPartial(g) ==
    [user_id |-> 0, access_token |-> AccessOf(g), refresh_token |-> Empty,
     csrf_token |-> Empty, expires_at |-> 0]

\* GenerateAuthTokens when a GenerateToken call returns an error: Tokens{}
\* and the error.
GenerateAuthTokensFailed(g) == NoRow

\* GenerateAuthTokens: three fresh secrets and ExpiresAt = time.Now() + duration.
GenerateAuthTokens(g) ==
    [user_id |-> 0, access_token |-> AccessOf(g), refresh_token |-> RefreshOf(g),
     csrf_token |-> CSRFOf(g), expires_at |-> now + cfg.AccessTokenDuration]

\* The comparison the other way round: time.Now().Before(t).
Before(t) == now < t

\* time.Now().After(t)
After(t) == now > t

\* --------------------------------------------------------- the handlers
Done(p) == reqs[p].pc = "done"

\* Requests are numbered in the order in which their handlers start.
Free(p) == /\ reqs[p].pc = "idle"
           /\ \A q \in Procs : q < p => reqs[q].pc # "idle"

\* A handler starts on a decoded request: its inputs, nothing else yet.
NewRequest(kind, username, password, access, csrf, refresh) ==
    [Idle EXCEPT !.kind = kind, !.pc = "start", !.username = username, !.password = password,
                 !.access = access, !.csrf = csrf, !.refresh = refresh]

\* The handler of request p goes on as r.
Continue(p, r) == reqs' = [reqs EXCEPT ![p] = r]

\* The handler of request p, in state r, writes its response and returns.
Return(p, r, status, msg, body) ==
    reqs' = [reqs EXCEPT ![p] =
        [r EXCEPT !.pc = "done", !.status = status, !.msg = msg, !.body = body, !.at = now]]

\* An error response that carries the tokens the handler holds.
sendJSONErrorWithTokens(p, r, message, statusCode) ==
    Return(p, r, statusCode, message, [r.tokens EXCEPT !.user_id = 0])

\* sendJSONError writes a status and {"error": message}.
sendJSONError(p, r, message, statusCode) == Return(p, r, statusCode, message, NoRow)

\* A handler that answers an error of a call by making the call again.
InternalErrorRetrying(p, r) == Continue(p, r)

\* The handler's answer to an error that a store call or the generator
\* returned for a reason outside the model (the network, a cancelled context).
InternalError(p, r) ==
    sendJSONError(p, [r EXCEPT !.fault = TRUE], "Internal server error", 500)

\* History: request r has called a store operation or the generator.
Called(r, call) == [r EXCEPT !.calls = Append(@, call)]

\* The 200 response of Login and RefreshToken: AuthResponse with the tokens.
AuthResponse(p, r, message) ==
    Return(p, r, 200, message, [r.tokens EXCEPT !.user_id = 0])

\* The 200 response of Logout and Protected: a message.
OKResponse(p, r, message) == Return(p, r, 200, message, NoRow)

\* The bundles that clients hold: those of the 200 responses so far and that
\* of the session open at the start.
Served == {reqs[p].body : p \in {q \in Procs : Done(q) /\ reqs[q].body # NoRow}}
          \cup {[Session0 EXCEPT !.user_id = 0]}

\* What a client can put in a credential header or field: a secret it was
\* given in a response, a made-up one, or nothing. With an access secret it
\* sends the CSRF secret that came with it, a made-up one, or none.
PresentableRefresh == {b.refresh_token : b \in Served} \cup {Forged, Empty}
PresentableAccess == {b.access_token : b \in Served} \cup {Forged, Empty}
PresentableCSRF(access) ==
    {b.csrf_token : b \in {x \in Served : x.access_token = access}} \cup {Forged, Empty}

\* History of a lookup by access token: whether, at the instant of the
\* SELECT, the table held a bundle with the presented access and CSRF
\* secrets, and whether that bundle's expiry had passed then.
Matching(access, csrf) ==
    {t \in authTokens : t.access_token = access /\ t.csrf_token = csrf}
Seen(access, csrf) ==
    IF Matching(access, csrf) = {} THEN "none"
    ELSE IF \E t \in Matching(access, csrf) : now > t.expires_at THEN "stale"
    ELSE "fresh"
SeenOwner(access, csrf) ==
    IF Matching(access, csrf) = {} THEN 0
    ELSE (CHOOSE t \in Matching(access, csrf) : TRUE).user_id

\* History of a lookup by access token: whether, at the instant of the
\* SELECT, some SaveAuthTokens call had deleted the bundle with the presented
\* access secret and not yet inserted its replacement.
InGap(access) ==
    \E q \in Procs : /\ reqs[q].pc = "SaveInsert"
                     /\ \E d \in reqs[q].deleted : d.access_token = access

\* ------------------------------------------------------------- Login
\* Handler.Login up to the call of SaveAuthTokens: GetUserByUsername, the
\* password check and GenerateAuthTokens.
Login(p) ==
    /\ Free(p)
    /\ \E username \in Usernames, password \in Passwords :
        LET r == Called(NewRequest("Login", username, password, Empty, Empty, Empty),
                        "GetUserByUsername")
            found == GetUserByUsername(username)
        IN  \/ \* GetUserByUsername returns an error
               /\ InternalError(p, r)
               /\ UNCHANGED nextGen
            \/ /\ \/ found = {}
                  \/ \E user \in found : ~CheckPasswordHash(password, user.hashed_password)
               /\ sendJSONError(p, r, "Invalid username or password", 401)
               /\ UNCHANGED nextGen
            \/ \* GenerateAuthTokens returns an error
               /\ \E user \in found :
                    /\ CheckPasswordHash(password, user.hashed_password)
                    /\ InternalError(p, [Called(r, "GenerateAuthTokens") EXCEPT
                                            !.userId = user.id,
                                            !.tokens = GenerateAuthTokensFailed(nextGen)])
               /\ UNCHANGED nextGen
            \/ /\ \E user \in found :
                    /\ CheckPasswordHash(password, user.hashed_password)
                    /\ Continue(p, [Called(r, "GenerateAuthTokens") EXCEPT
                                        !.pc = "SaveDelete", !.userId = user.id,
                                        !.tokens = GenerateAuthTokens(nextGen)])
               /\ nextGen' = nextGen + 1
    /\ UNCHANGED <<srv, cfg, cmp, database, users, authTokens, now, loggedOut>>

\* ------------------------------------------------------ SaveAuthTokens
\* First statement of SaveAuthTokens: DELETE FROM auth_tokens WHERE user_id = $1.
SaveDelete(p) ==
    LET r == Called(reqs[p], "SaveAuthTokens") IN
    /\ reqs[p].pc = "SaveDelete"
    /\ \/ /\ authTokens' = DeleteWhereUser(r.userId)
          /\ Continue(p, [r EXCEPT !.pc = "SaveInsert",
                                   !.deleted = authTokens \ DeleteWhereUser(r.userId)])
       \/ \* ExecContext returns an error
          /\ InternalError(p, r)
          /\ UNCHANGED authTokens
    /\ UNCHANGED <<srv, cfg, cmp, database, users, now, nextGen, loggedOut>>

\* Second statement of SaveAuthTokens: the INSERT, and the handler's response.
SaveInsert(p) ==
    LET r == reqs[p]
        row == [r.tokens EXCEPT !.user_id = r.userId]
    IN  /\ r.pc = "SaveInsert"
        /\ \/ /\ InsertAccepted(row)
              /\ authTokens' = authTokens \cup {row}
              /\ IF r.kind = "Login"
                 THEN /\ AuthResponse(p, r, "User logged in successfully")
                      /\ loggedOut' = loggedOut \ {r.userId}
                 ELSE /\ AuthResponse(p, r, "Tokens refreshed successfully")
                      /\ UNCHANGED loggedOut
           \/ \* the INSERT violates a UNIQUE constraint
              /\ ~InsertAccepted(row)
              /\ sendJSONError(p, r, "Internal server error", 500)
              /\ UNCHANGED <<authTokens, loggedOut>>
           \/ \* ExecContext returns another error
              /\ InternalError(p, r)
              /\ UNCHANGED <<authTokens, loggedOut>>
        /\ UNCHANGED <<srv, cfg, cmp, database, users, now, nextGen>>

\* ------------------------------------------------------- RefreshToken
\* The test of line 199 without the comparison of the owners.
RefreshTokenAcceptedAnyOwner(user, token, refresh) ==
    ValidateRefreshToken(refresh, token.refresh_token)

\* The test of line 199 with a test of the expiry added.
RefreshTokenAcceptedUnexpired(user, token, refresh) ==
    /\ token.user_id = user.id
    /\ ValidateRefreshToken(refresh, token.refresh_token)
    /\ ~After(token.expires_at)

\* The test of line 199 on a row that the lookup returned:
\* token.UserID == user.ID && ValidateRefreshToken(req.RefreshToken, token.RefreshToken).
RefreshTokenAccepted(user, token, refresh) ==
    /\ token.user_id = user.id
    /\ ValidateRefreshToken(refresh, token.refresh_token)

\* Handler.RefreshToken up to its token check: GetUserByUsername,
\* GetAuthTokensByRefreshToken (its second definition, or its first when
\* stub is TRUE) and the test of line 199. No handler writes the users
\* table, so the two reads are one step.
RefreshTokenWith(p, stub) ==
    /\ Free(p)
    /\ \E username \in Usernames, refresh \in PresentableRefresh :
        LET r1 == Called(NewRequest("RefreshToken", username, "", Empty, Empty, refresh),
                         "GetUserByUsername")
            r == Called(r1, "GetAuthTokensByRefreshToken")
            found == GetUserByUsername(username)
            rows == IF stub THEN GetAuthTokensByRefreshTokenStub(refresh)
                    ELSE GetAuthTokensByRefreshToken(refresh)
        IN  \/ \* GetUserByUsername returns an error
               InternalError(p, r1)
            \/ /\ found = {}
               /\ sendJSONError(p, r1, "User not found", 404)
            \/ \* GetAuthTokensByRefreshToken returns an error
               /\ found # {}
               /\ InternalError(p, r)
            \/ \E user \in found :
                  IF \E token \in rows : RefreshTokenAccepted(user, token, refresh)
                  THEN \E token \in rows :
                         Continue(p, [r EXCEPT !.pc = "RefreshGenerate",
                                               !.userId = user.id, !.token = token])
                  ELSE sendJSONError(p, r, "Invalid refresh token", 401)
    /\ UNCHANGED <<srv, cfg, cmp, database, users, authTokens, now, nextGen, loggedOut>>

RefreshToken(p) == RefreshTokenWith(p, FALSE)

\* GenerateAuthTokens in RefreshToken, and "keep the same refresh token".
RefreshGenerate(p) ==
    LET r == Called(reqs[p], "GenerateAuthTokens") IN
    /\ r.pc = "RefreshGenerate"
    /\ \/ \* GenerateAuthTokens returns an error
          /\ InternalError(p, [r EXCEPT !.tokens = GenerateAuthTokensFailed(nextGen)])
          /\ UNCHANGED nextGen
       \/ /\ Continue(p, [r EXCEPT !.pc = "SaveDelete",
                                   !.tokens = [GenerateAuthTokens(nextGen) EXCEPT
                                        !.refresh_token = r.token.refresh_token]])
          /\ nextGen' = nextGen + 1
    /\ UNCHANGED <<srv, cfg, cmp, database, users, authTokens, now, loggedOut>>

\* ---------------------------------------------------- Logout, Protected
\* The header checks of both handlers looking at the access token only.
MissingAccessOnly(access, csrf) ==
    IF access = Empty THEN "Missing access token" ELSE ""

\* The header checks of both handlers: the message of the first one that
\* fails, or "" when both headers are there.
MissingHeader(access, csrf) ==
    IF access = Empty THEN "Missing access token"
    ELSE IF csrf = Empty THEN "Missing CSRF token"
    ELSE ""

\* The header checks and GetAuthTokensByAccessToken, as both handlers start.
AccessLookup(p, kind, pcNext) ==
    /\ Free(p)
    /\ \E access \in PresentableAccess : \E csrf \in PresentableCSRF(access) :
        LET r0 == NewRequest(kind, "", "", access, csrf, Empty)
            r == Called(r0, "GetAuthTokensByAccessToken")
            rows == GetAuthTokensByAccessToken(access)
        IN  IF MissingHeader(access, csrf) # ""
            THEN sendJSONError(p, r0, MissingHeader(access, csrf), 401)
            ELSE \/ \* GetAuthTokensByAccessToken returns an error
                    InternalError(p, r)
                 \/ \E token \in (IF rows = {} THEN {NoRow} ELSE rows) :
                    Continue(p, [r EXCEPT !.pc = pcNext, !.token = token,
                                          !.seen = Seen(access, csrf),
                                          !.owner = SeenOwner(access, csrf),
                                          !.gap = InGap(access)])
    /\ UNCHANGED <<srv, cfg, cmp, database, users, authTokens, now, nextGen, loggedOut>>

\* The gates without the comparison of the CSRF secrets.
GateWithoutCSRF(r) ==
    IF r.token = NoRow THEN "Invalid access token"
    ELSE IF After(r.token.expires_at) THEN "Access token expired"
    ELSE ""

\* The gates both handlers apply to the row they read, in the code's order:
\* the message of the first gate that fails, or "" when all pass.
Gate(r) ==
    IF r.token = NoRow THEN "Invalid access token"
    ELSE IF r.token.csrf_token # r.csrf THEN "Invalid CSRF token"
    ELSE IF After(r.token.expires_at) THEN "Access token expired"
    ELSE ""

ProtectedLookup(p) == AccessLookup(p, "Protected", "ProtectedCheck")

\* Handler.Protected after the lookup.
ProtectedCheck(p) ==
    LET r == reqs[p] IN
    /\ r.pc = "ProtectedCheck"
    /\ IF Gate(r) # ""
       THEN sendJSONError(p, r, Gate(r), 401)
       ELSE OKResponse(p, r, "Protected resource accessed by user: " \o Username(r.token.user_id))
    /\ UNCHANGED <<srv, cfg, cmp, database, users, authTokens, now, nextGen, loggedOut>>

LogoutLookup(p) == AccessLookup(p, "Logout", "LogoutCheck")

\* Handler.Logout after the lookup: the gates, then DeleteAuthTokens(user.ID).
LogoutCheck(p) ==
    LET r == reqs[p] IN
    /\ r.pc = "LogoutCheck"
    /\ IF Gate(r) # ""
       THEN /\ sendJSONError(p, r, Gate(r), 401)
            /\ UNCHANGED <<authTokens, loggedOut>>
       ELSE \/ /\ authTokens' = DeleteWhereUser(r.token.user_id)
               /\ OKResponse(p, [Called(r, "DeleteAuthTokens") EXCEPT
                                    !.deleted = authTokens \ DeleteWhereUser(r.token.user_id)],
                             "User logged out successfully")
               /\ loggedOut' = loggedOut \cup {r.token.user_id}
            \/ \* DeleteAuthTokens returns an error
               /\ InternalError(p, Called(r, "DeleteAuthTokens"))
               /\ UNCHANGED <<authTokens, loggedOut>>
    /\ UNCHANGED <<srv, cfg, cmp, database, users, now, nextGen>>

\* ------------------------------------------------------------- clock
Tick ==
    /\ now < MaxTime
    /\ now' = now + 1
    /\ UNCHANGED <<srv, cfg, cmp, database, users, authTokens, nextGen, reqs, loggedOut>>

Next ==
    \/ \E p \in Procs : Login(p)
    \/ \E p \in Procs : SaveDelete(p)
    \/ \E p \in Procs : SaveInsert(p)
    \/ \E p \in Procs : RefreshToken(p)
    \/ \E p \in Procs : RefreshGenerate(p)
    \/ \E p \in Procs : ProtectedLookup(p)
    \/ \E p \in Procs : ProtectedCheck(p)
    \/ \E p \in Procs : LogoutLookup(p)
    \/ \E p \in Procs : LogoutCheck(p)
    \/ Tick

Spec == Init /\ [][Next]_vars

\* Rotations racing for the session that is open at the start: RefreshToken
\* requests only.
InitRotate == Init /\ authTokens = {Session0}
NextRotate ==
    \/ \E p \in Procs : RefreshToken(p)
    \/ \E p \in Procs : RefreshGenerate(p)
    \/ \E p \in Procs : SaveDelete(p)
    \/ \E p \in Procs : SaveInsert(p)
SpecRotate == InitRotate /\ [][NextRotate]_vars

\* The service built with the first definition of GetAuthTokensByRefreshToken
\* of postgres.go (RefreshGenerate is never reached in it).
RefreshTokenStub(p) == RefreshTokenWith(p, TRUE)
NextStub ==
    \/ \E p \in Procs : Login(p)
    \/ \E p \in Procs : SaveDelete(p)
    \/ \E p \in Procs : SaveInsert(p)
    \/ \E p \in Procs : RefreshTokenStub(p)
    \/ \E p \in Procs : ProtectedLookup(p)
    \/ \E p \in Procs : ProtectedCheck(p)
    \/ \E p \in Procs : LogoutLookup(p)
    \/ \E p \in Procs : LogoutCheck(p)
    \/ Tick
SpecStub == Init /\ [][NextStub]_vars

\* ------------------------------------------- the in-memory program
\* src/main.go keeps the users in a map from username to Login, a hashed
\* password and the user's AuthTokens, and its handlers read and write the map
\* with no lock. AuthTokens is written here with the fields of a stored row
\* (user_id always 0); AuthTokens{} is NoRow. Each access to the map is one
\* step.
hashPassword(password) == HashPassword(password)
checkPasswordHash(password, hash) == CheckPasswordHash(password, hash)

\* generateToken: the secret, or "" when rand.Read returns an error.
generateToken(secret, failed) == IF failed THEN Empty ELSE secret

\* The calls of generateToken in generateAuthTokens, by the field they fill.
TokenFields == {"AccessToken", "RefreshToken", "CSRFToken"}

\* generateAuthTokens: three calls of generateToken, expiring 15 minutes from
\* now; failed holds the calls in which rand.Read returns an error.
generateAuthTokens(g, failed) ==
    [user_id |-> 0,
     access_token |-> generateToken(AccessOf(g), "AccessToken" \in failed),
     refresh_token |-> generateToken(RefreshOf(g), "RefreshToken" \in failed),
     csrf_token |-> generateToken(CSRFOf(g), "CSRFToken" \in failed),
     expires_at |-> now + AccessTokenDuration]

\* refreshAuthTokens: the user must exist and the presented refresh token must
\* equal the stored one, byte for byte; the new tokens keep the stored refresh
\* token.
refreshAuthTokensAccepts(refreshToken, username) ==
    /\ username \in DOMAIN database
    /\ database[username].Tokens.refresh_token = refreshToken

refreshAuthTokens(g, username, failed) ==
    [generateAuthTokens(g, failed) EXCEPT
        !.refresh_token = database[username].Tokens.refresh_token]

\* Authorize: what the loop over the map can return for a pair of headers. An
\* entry with the presented access token ends the loop when it is expired
\* (error) or when its CSRF token is the presented one (found); the map is
\* visited in no fixed order, so any such entry may be the one that ends it.
\* matched names the entry that was found; the code does not return it.
ErrAuth == [err |-> "Unauthorized", matched |-> ""]

AuthorizeEnds(u, accessToken, csrfToken) ==
    /\ database[u].Tokens.access_token = accessToken
    /\ \/ After(database[u].Tokens.expires_at)
       \/ database[u].Tokens.csrf_token = csrfToken

Authorize(accessToken, csrfToken) ==
    IF accessToken = Empty \/ csrfToken = Empty THEN {ErrAuth}
    ELSE LET ends == {u \in DOMAIN database : AuthorizeEnds(u, accessToken, csrfToken)}
         IN  IF ends = {} THEN {ErrAuth}
             ELSE {IF After(database[u].Tokens.expires_at)
                   THEN [err |-> "access token expired", matched |-> ""]
                   ELSE [err |-> "", matched |-> u] : u \in ends}

\* login: the user is read and the password checked, the tokens are generated;
\* then the entry is written back with the tokens.
login(p) ==
    /\ Free(p)
    /\ \E username \in Usernames, password \in Passwords :
         LET r == NewRequest("login", username, password, Empty, Empty, Empty)
         IN  IF username \notin DOMAIN database
                \/ ~checkPasswordHash(password, database[username].HashedPassword)
             THEN /\ sendJSONError(p, r, "Invalid username or password", 401)
                  /\ UNCHANGED nextGen
             ELSE /\ \E failed \in SUBSET TokenFields :
                       Continue(p, [r EXCEPT !.pc = "loginStore",
                                             !.tokens = generateAuthTokens(nextGen, failed)])
                  /\ nextGen' = nextGen + 1
    /\ UNCHANGED <<srv, cfg, cmp, database, users, authTokens, now, loggedOut>>

loginStore(p) ==
    /\ reqs[p].pc = "loginStore"
    /\ database' = [database EXCEPT ![reqs[p].username].Tokens = reqs[p].tokens]
    /\ AuthResponse(p, reqs[p], "User logged in successfully")
    /\ UNCHANGED <<srv, cfg, cmp, users, authTokens, now, nextGen, loggedOut>>

\* refreshToken: refreshAuthTokens reads the entry; then the entry is read
\* again and written back with the new tokens.
refreshToken(p) ==
    /\ Free(p)
    /\ \E username \in Usernames, refresh \in PresentableRefresh :
         LET r == NewRequest("refreshToken", username, Empty, Empty, Empty, refresh)
         IN  IF ~refreshAuthTokensAccepts(refresh, username)
             THEN /\ sendJSONError(p, r, "Invalid refresh token", 401)
                  /\ UNCHANGED nextGen
             ELSE /\ \E failed \in SUBSET TokenFields :
                       Continue(p, [r EXCEPT !.pc = "refreshStore",
                                             !.token = database[username].Tokens,
                                             !.tokens = refreshAuthTokens(nextGen, username, failed)])
                  /\ nextGen' = nextGen + 1
    /\ UNCHANGED <<srv, cfg, cmp, database, users, authTokens, now, loggedOut>>

refreshStore(p) ==
    /\ reqs[p].pc = "refreshStore"
    /\ database' = [database EXCEPT ![reqs[p].username].Tokens = reqs[p].tokens]
    /\ AuthResponse(p, reqs[p], "Tokens refreshed successfully")
    /\ UNCHANGED <<srv, cfg, cmp, users, authTokens, now, nextGen, loggedOut>>

\* logout: Authorize on the headers; then the username of the body names the
\* entry whose tokens are reset.
logout(p) ==
    /\ Free(p)
    /\ \E username \in Usernames, access \in PresentableAccess :
       \E csrf \in PresentableCSRF(access) :
       \E res \in Authorize(access, csrf) :
         LET r == NewRequest("logout", username, Empty, access, csrf, Empty)
         IN  IF res.err # ""
             THEN sendJSONError(p, r, "Unauthorized", 401)
             ELSE Continue(p, [r EXCEPT !.pc = "logoutClear", !.matched = res.matched])
    /\ UNCHANGED <<srv, cfg, cmp, database, users, authTokens, now, nextGen, loggedOut>>

logoutClear(p) ==
    /\ reqs[p].pc = "logoutClear"
    /\ LET r == reqs[p]
       IN  IF r.username \in DOMAIN database
           THEN /\ database' = [database EXCEPT ![r.username].Tokens = NoRow]
                /\ OKResponse(p, [r EXCEPT !.deleted = {database[r.username].Tokens}],
                              "User logged out successfully")
           ELSE /\ sendJSONError(p, r, "User not found", 404)
                /\ UNCHANGED database
    /\ UNCHANGED <<srv, cfg, cmp, users, authTokens, now, nextGen, loggedOut>>

\* protected: the entry named by the body is read and the headers are compared
\* with its tokens; then the clock is read.
protected(p) ==
    /\ Free(p)
    /\ \E username \in Usernames, access \in PresentableAccess :
       \E csrf \in PresentableCSRF(access) :
         LET r == NewRequest("protected", username, Empty, access, csrf, Empty)
         IN  IF username \notin DOMAIN database
             THEN sendJSONError(p, r, "User not found", 404)
             ELSE IF access = Empty \/ csrf = Empty
             THEN sendJSONError(p, r, "Missing authentication tokens", 401)
             ELSE IF \/ database[username].Tokens.access_token # access
                     \/ database[username].Tokens.csrf_token # csrf
             THEN sendJSONError(p, r, "Invalid authentication tokens", 401)
             ELSE Continue(p, [r EXCEPT !.pc = "protectedExpiry",
                                        !.token = database[username].Tokens])
    /\ UNCHANGED <<srv, cfg, cmp, database, users, authTokens, now, nextGen, loggedOut>>

protectedExpiry(p) ==
    /\ reqs[p].pc = "protectedExpiry"
    /\ IF After(reqs[p].token.expires_at)
       THEN sendJSONError(p, reqs[p], "Access token expired", 401)
       ELSE OKResponse(p, reqs[p], "Protected resource accessed by user: " \o reqs[p].username)
    /\ UNCHANGED <<srv, cfg, cmp, database, users, authTokens, now, nextGen, loggedOut>>

\* The map is not safe for concurrent use: when a write to it overlaps another
\* access, the Go runtime may stop the process ("fatal error: concurrent map
\* writes"; "concurrent map read and map write"). A handler about to write
\* can overlap another handler that is about to access the map, or one that
\* is just arriving. The process is gone then: no request is answered any more
\* and the map is lost.
Writing == {"loginStore", "refreshStore", "logoutClear", "registerStore"}

Crashed == [Idle EXCEPT !.pc = "done", !.msg = "fatal error: concurrent map writes"]

Crash ==
    /\ \E p \in Procs :
         /\ reqs[p].pc \in Writing
         /\ \E q \in Procs \ {p} : reqs[q].pc \in Writing \cup {"idle"}
    /\ reqs' = [p \in Procs |-> IF Done(p) THEN reqs[p] ELSE Crashed]
    /\ database' = NoDatabase
    /\ UNCHANGED <<srv, cfg, cmp, users, authTokens, now, nextGen, loggedOut>>

\* The in-memory program with two registered users; the first is logged in or
\* nobody is.
MemSession0 == [Session0 EXCEPT !.user_id = 0]

InitMem ==
    /\ cfg = DefaultCfg
    /\ cmp = NoCmp
    /\ srv = Serve
    /\ \E tokens \in {NoRow, MemSession0} :
         database = [u \in {"username1", "username2"} |->
                        [HashedPassword |-> hashPassword("password1"),
                         Tokens |-> IF u = "username1" THEN tokens ELSE NoRow]]
    /\ users = {}
    /\ authTokens = {}
    /\ now = 0
    /\ nextGen = 1
    /\ reqs = [p \in Procs |-> Idle]
    /\ loggedOut = {}

NextMem ==
    \/ \E p \in Procs : login(p)
    \/ \E p \in Procs : loginStore(p)
    \/ \E p \in Procs : refreshToken(p)
    \/ \E p \in Procs : refreshStore(p)
    \/ \E p \in Procs : logout(p)
    \/ \E p \in Procs : logoutClear(p)
    \/ \E p \in Procs : protected(p)
    \/ \E p \in Procs : protectedExpiry(p)
    \/ Crash
    \/ Tick

SpecMem == InitMem /\ [][NextMem]_vars

\* ------------------------------------------------------ config.Load
\* A string is written as the sequence of its lexemes. The values of
\* ACCESS_TOKEN_DURATION are the strings of up to MaxEnvLen of these lexemes.
MaxEnvLen == 3
Lexemes == {"-", "0", "15", "m", "x"}
EnvStrings == UNION {[1..n -> Lexemes] : n \in 0..MaxEnvLen}

\* One clock tick of the model is 15 minutes.
MinutesPerTick == 15

\* Whether lexeme c is made of decimal digits, how many digits it has, and
\* its value.
IsDigits(c) == c \in {"0", "15"}
Shift(c) == IF c = "15" THEN 100 ELSE 10
Value(c) == IF c = "15" THEN 15 ELSE 0

\* The length of the longest prefix of s that is digits (unit = FALSE) or
\* that is not (unit = TRUE).
RECURSIVE RunLen(_, _)
RunLen(s, unit) ==
    IF s = <<>> \/ (IsDigits(Head(s)) = unit) THEN 0 ELSE 1 + RunLen(Tail(s), unit)

\* The number that a run of digits denotes.
RECURSIVE DigitsValue(_)
DigitsValue(s) ==
    IF s = <<>> THEN 0
    ELSE DigitsValue(SubSeq(s, 1, Len(s) - 1)) * Shift(s[Len(s)]) + Value(s[Len(s)])

InvalidDuration == [ok |-> FALSE, d |-> 0]

\* The loop of time.ParseDuration: groups of digits and a unit, added up, in
\* minutes. A group with no digits, with no unit or with an unknown unit is
\* an error.
RECURSIVE ParseGroups(_)
ParseGroups(s) ==
    IF s = <<>> THEN [ok |-> TRUE, d |-> 0]
    ELSE LET n == RunLen(s, FALSE)
             rest == SubSeq(s, n + 1, Len(s))
             u == RunLen(rest, TRUE)
             tail == ParseGroups(SubSeq(rest, u + 1, Len(rest)))
         IN  IF n = 0 \/ SubSeq(rest, 1, u) # <<"m">> \/ ~tail.ok THEN InvalidDuration
             ELSE [ok |-> TRUE, d |-> DigitsValue(SubSeq(s, 1, n)) + tail.d]

\* time.ParseDuration: an optional sign, then "0" or one or more groups.
ParseDuration(s) ==
    LET neg == s # <<>> /\ Head(s) = "-"
        body == IF neg THEN Tail(s) ELSE s
        groups == ParseGroups(body)
    IN  IF body = <<>> THEN InvalidDuration
        ELSE IF body = <<"0">> THEN [ok |-> TRUE, d |-> 0]
        ELSE IF ~groups.ok THEN InvalidDuration
        ELSE [ok |-> TRUE, d |-> IF neg THEN 0 - groups.d ELSE groups.d]

\* getEnv: the default stands in for an unset or empty variable.
getEnv(value, defaultValue) == IF value = <<>> THEN defaultValue ELSE value

\* Load: the token durations are whatever time.ParseDuration returns; an
\* error ends main (log.Fatalf).
Load ==
    /\ cfg.loaded = "no"
    /\ LET parsed == ParseDuration(getEnv(cfg.ACCESS_TOKEN_DURATION, <<"15", "m">>))
       IN  cfg' = IF parsed.ok
                  THEN [cfg EXCEPT !.loaded = "ok",
                                   !.AccessTokenDuration = parsed.d \div MinutesPerTick]
                  ELSE [cfg EXCEPT !.loaded = "error"]
    /\ UNCHANGED <<srv, cmp, database, users, authTokens, now, nextGen, reqs, loggedOut>>

\* The server from its start with any value of ACCESS_TOKEN_DURATION: Load,
\* then logins and protected requests.
Serving == cfg.loaded = "ok"

InitLoad ==
    /\ \E value \in EnvStrings :
         cfg = [ACCESS_TOKEN_DURATION |-> value, loaded |-> "no", AccessTokenDuration |-> 0]
    /\ cmp = NoCmp
    /\ srv = Serve
    /\ database = NoDatabase
    /\ users = InitUsers
    /\ authTokens = {}
    /\ now = 0
    /\ nextGen = 1
    /\ reqs = [p \in Procs |-> Idle]
    /\ loggedOut = {}

NextLoad ==
    \/ Load
    \/ \E p \in Procs : Serving /\ Login(p)
    \/ \E p \in Procs : Serving /\ SaveDelete(p)
    \/ \E p \in Procs : Serving /\ SaveInsert(p)
    \/ \E p \in Procs : Serving /\ ProtectedLookup(p)
    \/ \E p \in Procs : Serving /\ ProtectedCheck(p)
    \/ Serving /\ Tick

SpecLoad == InitLoad /\ [][NextLoad]_vars

\* ------------------------------------------------- comparing secrets
\* The two ways in which the code compares a presented secret y with a stored
\* one x, one unit of the strings at a time; cmp.i counts the units examined,
\* which is what the time of the comparison grows with. Here a secret is a
\* string of up to MaxSecretLen units over Units.
MaxSecretLen == 3
Units == {"a", "b"}
Secrets == UNION {[1..n -> Units] : n \in 0..MaxSecretLen}

\* token.CSRFToken != csrfToken, userData.Tokens.CSRFToken == csrfToken: the
\* comparison of Go strings. Strings of different lengths differ; otherwise
\* the units are compared from the first on and the comparison ends at the
\* first pair that differs.
StringCompare ==
    /\ cmp.op = "==" /\ cmp.result = "none"
    /\ cmp' = IF Len(cmp.x) # Len(cmp.y) THEN [cmp EXCEPT !.result = "differ"]
              ELSE IF cmp.i = Len(cmp.x) THEN [cmp EXCEPT !.result = "equal"]
              ELSE IF cmp.x[cmp.i + 1] # cmp.y[cmp.i + 1]
                   THEN [cmp EXCEPT !.i = @ + 1, !.result = "differ"]
              ELSE [cmp EXCEPT !.i = @ + 1]
    /\ UNCHANGED <<srv, cfg, database, users, authTokens, now, nextGen, reqs, loggedOut>>

\* subtle.ConstantTimeCompare (in ValidateRefreshToken): strings of different
\* lengths differ; otherwise every pair of units is examined and the
\* differences are collected in v.
ConstantTimeCompare ==
    /\ cmp.op = "ConstantTimeCompare" /\ cmp.result = "none"
    /\ cmp' = IF Len(cmp.x) # Len(cmp.y) THEN [cmp EXCEPT !.result = "differ"]
              ELSE IF cmp.i = Len(cmp.x)
                   THEN [cmp EXCEPT !.result = IF cmp.v = 0 THEN "equal" ELSE "differ"]
              ELSE [cmp EXCEPT !.i = @ + 1,
                               !.v = IF cmp.x[cmp.i + 1] # cmp.y[cmp.i + 1] THEN 1 ELSE @]
    /\ UNCHANGED <<srv, cfg, database, users, authTokens, now, nextGen, reqs, loggedOut>>

InitCompare ==
    /\ \E op \in {"==", "ConstantTimeCompare"}, x \in Secrets, y \in Secrets :
         cmp = [NoCmp EXCEPT !.op = op, !.x = x, !.y = y]
    /\ cfg = DefaultCfg
    /\ srv = Serve
    /\ database = NoDatabase
    /\ users = InitUsers
    /\ authTokens = {}
    /\ now = 0
    /\ nextGen = 1
    /\ reqs = [p \in Procs |-> Idle]
    /\ loggedOut = {}

NextCompare == StringCompare \/ ConstantTimeCompare

SpecCompare == InitCompare /\ [][NextCompare]_vars

\* ----------------------------------------------------------- Register
\* The usernames and passwords of registration requests: those of the other
\* requests and one of each that is shorter than 8 characters.
RegUsernames == Usernames \cup {"user4"}
RegPasswords == {"password1", "password2", "pass3"}

\* len(req.Username) < 8 || len(req.Password) < 8
TooShort(username, password) == Len(username) < 8 \/ Len(password) < 8

\* The INSERT of CreateUser under a schema whose username column is not UNIQUE.
CreateUserAcceptedAlways(username) == TRUE

\* INSERT INTO users: the UNIQUE constraint on username decides whether the
\* row is accepted.
CreateUserAccepted(username) == \A u \in users : u.username # username

\* id SERIAL: every INSERT draws the next value of the sequence, also one
\* that is refused.
NextUserId ==
    Cardinality(InitUsers) + 1
    + Cardinality({p \in Procs : \E i \in 1..Len(reqs[p].calls) :
                                     reqs[p].calls[i] = "CreateUser" /\ reqs[p].pc = "done"})

\* Handler.Register up to CreateUser: the length check, GetUserByUsername and
\* HashPassword.
Register(p) ==
    /\ Free(p)
    /\ \E username \in RegUsernames, password \in RegPasswords :
        LET r0 == NewRequest("Register", username, password, Empty, Empty, Empty)
            r == Called(r0, "GetUserByUsername")
        IN  IF TooShort(username, password)
            THEN sendJSONError(p, r0, "Username and password must be at least 8 characters long", 400)
            ELSE \/ \* GetUserByUsername or HashPassword returns an error
                    InternalError(p, r)
                 \/ /\ GetUserByUsername(username) # {}
                    /\ sendJSONError(p, r, "Username already exists", 409)
                 \/ /\ GetUserByUsername(username) = {}
                    /\ Continue(p, [r EXCEPT !.pc = "CreateUser"])
    /\ UNCHANGED <<srv, cfg, cmp, database, users, authTokens, now, nextGen, loggedOut>>

\* CreateUser and the handler's response.
CreateUser(p) ==
    LET r == Called(reqs[p], "CreateUser")
        row == [id |-> NextUserId, username |-> r.username,
                hashed_password |-> HashPassword(r.password)]
    IN  /\ reqs[p].pc = "CreateUser"
        /\ \/ /\ CreateUserAccepted(r.username)
              /\ users' = users \cup {row}
              /\ Return(p, [r EXCEPT !.userId = row.id], 201, "User registered successfully", NoRow)
           \/ \* the INSERT violates the UNIQUE constraint
              /\ ~CreateUserAccepted(r.username)
              /\ sendJSONError(p, r, "Internal server error", 500)
              /\ UNCHANGED users
           \/ \* GetContext returns another error
              /\ InternalError(p, r)
              /\ UNCHANGED users
        /\ UNCHANGED <<srv, cfg, cmp, database, authTokens, now, nextGen, loggedOut>>

\* register of the in-memory program: the length check and the test of the
\* map; then the entry is written.
register(p) ==
    /\ Free(p)
    /\ \E username \in RegUsernames, password \in RegPasswords :
        LET r == NewRequest("register", username, password, Empty, Empty, Empty)
        IN  IF TooShort(username, password)
            THEN sendJSONError(p, r, "Username and password must be at least 8 characters long", 406)
            ELSE IF username \in DOMAIN database
            THEN sendJSONError(p, r, "Username already exists", 409)
            ELSE Continue(p, [r EXCEPT !.pc = "registerStore"])
    /\ UNCHANGED <<srv, cfg, cmp, database, users, authTokens, now, nextGen, loggedOut>>

registerStore(p) ==
    /\ reqs[p].pc = "registerStore"
    /\ database' = [u \in DOMAIN database \cup {reqs[p].username} |->
                      IF u = reqs[p].username
                      THEN [HashedPassword |-> hashPassword(reqs[p].password), Tokens |-> NoRow]
                      ELSE database[u]]
    /\ OKResponse(p, reqs[p], "User registered successfully")
    /\ UNCHANGED <<srv, cfg, cmp, users, authTokens, now, nextGen, loggedOut>>

\* Both programs, each on its own store, serving registrations and logins;
\* the first user is logged in at the start.
InitRegister ==
    /\ cfg = DefaultCfg
    /\ cmp = NoCmp
    /\ srv = Serve
    /\ database = [u \in {"username1", "username2"} |->
                     [HashedPassword |-> hashPassword("password1"),
                      Tokens |-> IF u = "username1" THEN [Session0 EXCEPT !.user_id = 0]
                                 ELSE NoRow]]
    /\ users = InitUsers
    /\ authTokens = {Session0}
    /\ now = 0
    /\ nextGen = 1
    /\ reqs = [p \in Procs |-> Idle]
    /\ loggedOut = {}

NextRegister ==
    \/ \E p \in Procs : Register(p)
    \/ \E p \in Procs : CreateUser(p)
    \/ \E p \in Procs : register(p)
    \/ \E p \in Procs : registerStore(p)
    \/ \E p \in Procs : Login(p)
    \/ \E p \in Procs : SaveDelete(p)
    \/ \E p \in Procs : SaveInsert(p)
    \/ \E p \in Procs : login(p)
    \/ \E p \in Procs : loginStore(p)
    \/ Crash

SpecRegister == InitRegister /\ [][NextRegister]_vars

\* ------------------------------------------- both programs, in sequence
\* Each request is served by the relational program and then, the same
\* request, by the in-memory one, one request after the other: request p with
\* p odd is the relational run and request p + 1 its in-memory run. Both
\* programs start with the same users and the same session.
Relational(p) == p % 2 = 1
Quiet(p) == \A q \in Procs : q < p => Done(q)

\* The in-memory request p, as it starts in this step, is the request that
\* the relational program has just served: same headers, same fields of the
\* body that the relational handler decodes.
Mirrors(p, kind) ==
    /\ ~Relational(p) /\ Quiet(p)
    /\ reqs[p - 1].kind = kind
    /\ reqs'[p].access = reqs[p - 1].access
    /\ reqs'[p].csrf = reqs[p - 1].csrf
    /\ reqs'[p].refresh = reqs[p - 1].refresh
    /\ kind \in {"Login", "RefreshToken", "Register"}
         => reqs'[p].username = reqs[p - 1].username
    /\ kind \in {"Login", "Register"} => reqs'[p].password = reqs[p - 1].password

InitBoth ==
    /\ cfg = DefaultCfg
    /\ cmp = NoCmp
    /\ srv = Serve
    /\ \E session \in {NoRow, Session0} :
         /\ authTokens = {session} \ {NoRow}
         /\ database = [u \in {"username1", "username2"} |->
                          [HashedPassword |-> hashPassword("password1"),
                           Tokens |-> IF u = "username1" THEN [session EXCEPT !.user_id = 0]
                                      ELSE NoRow]]
    /\ users = InitUsers
    /\ now \in 0..MaxTime
    /\ nextGen = 1
    /\ reqs = [p \in Procs |-> Idle]
    /\ loggedOut = {}

NextBoth ==
    \/ \E p \in Procs : Relational(p) /\ Quiet(p) /\ Register(p)
    \/ \E p \in Procs : CreateUser(p)
    \/ \E p \in Procs : Relational(p) /\ Quiet(p) /\ Login(p)
    \/ \E p \in Procs : SaveDelete(p)
    \/ \E p \in Procs : SaveInsert(p)
    \/ \E p \in Procs : Relational(p) /\ Quiet(p) /\ RefreshToken(p)
    \/ \E p \in Procs : RefreshGenerate(p)
    \/ \E p \in Procs : Relational(p) /\ Quiet(p) /\ LogoutLookup(p)
    \/ \E p \in Procs : LogoutCheck(p)
    \/ \E p \in Procs : Relational(p) /\ Quiet(p) /\ ProtectedLookup(p)
    \/ \E p \in Procs : ProtectedCheck(p)
    \/ \E p \in Procs : register(p) /\ Mirrors(p, "Register")
    \/ \E p \in Procs : registerStore(p)
    \/ \E p \in Procs : login(p) /\ Mirrors(p, "Login")
    \/ \E p \in Procs : loginStore(p)
    \/ \E p \in Procs : refreshToken(p) /\ Mirrors(p, "RefreshToken")
    \/ \E p \in Procs : refreshStore(p)
    \/ \E p \in Procs : logout(p) /\ Mirrors(p, "Logout")
    \/ \E p \in Procs : logoutClear(p)
    \/ \E p \in Procs : protected(p) /\ Mirrors(p, "Protected")
    \/ \E p \in Procs : protectedExpiry(p)

SpecBoth == InitBoth /\ [][NextBoth]_vars

\* ------------------------------------------------------------ properties
UserIds == {u.id : u \in users}
Rows(userID) == {t \in authTokens : t.user_id = userID}
Resolves(row) == \/ GetAuthTokensByAccessToken(row.access_token) # {}
                 \/ GetAuthTokensByRefreshToken(row.refresh_token) # {}
Authorizing(p) == reqs[p].kind \in {"Protected", "Logout"}

\* C1: in every reachable state the auth_tokens table holds at most one
\* bundle row per user.
C1_OneBundlePerUser ==
    \A u \in UserIds : Cardinality(Rows(u)) <= 1

\* C2: no lookup by Protected or Logout finds no bundle because it ran
\* between the DELETE and the INSERT of a SaveAuthTokens call that replaces
\* the bundle it asked for.
C2_GapNeverObserved ==
    \A p \in Procs : ~(reqs[p].gap /\ reqs[p].token = NoRow)

\* C3: once a Login has answered 200, no secret of the bundle it replaced
\* resolves in any later state.
C3_LoginInvalidatesPrevious ==
    \A p \in Procs :
        (Done(p) /\ reqs[p].kind = "Login" /\ reqs[p].status = 200)
            => \A d \in reqs[p].deleted : ~Resolves(d)

\* C4: from a Logout's 200 until the owner's next successful login the owner
\* has no stored bundle, and the secrets of the bundle logged out resolve
\* to nothing.
C4_LogoutDestroysBundle ==
    \A u \in loggedOut :
        /\ Rows(u) = {}
        /\ \A p \in Procs :
              (Done(p) /\ reqs[p].kind = "Logout" /\ reqs[p].status = 200
                       /\ reqs[p].token.user_id = u)
                  => \A d \in reqs[p].deleted : ~Resolves(d)

\* The requests that rotate the session open at the start with its refresh
\* secret, and the answers they got.
Rotations == {p \in Procs : /\ reqs[p].kind = "RefreshToken"
                            /\ reqs[p].username = Username(Session0.user_id)
                            /\ reqs[p].refresh = Session0.refresh_token}
RotateRace ==
    /\ \A p \in Procs : Done(p) /\ ~reqs[p].fault
    /\ Cardinality(Rotations) >= 2
StoredAs(p) == [reqs[p].body EXCEPT !.user_id = reqs[p].userId]

\* C5: when the session's refresh secret is presented by two or more
\* RefreshToken requests, in any interleaving and with no store fault, and
\* all have answered: one of them answered 200, each of the others answered
\* 200 or an error without a bundle, and the owner's only stored bundle is
\* the one a 200 response carried.
C5_RotateRace ==
    RotateRace =>
        /\ \E p \in Rotations : reqs[p].status = 200
        /\ \A p \in Rotations : \/ reqs[p].status = 200 /\ reqs[p].body # NoRow
                                \/ reqs[p].status \in {401, 500} /\ reqs[p].body = NoRow
        /\ \E p \in Rotations : /\ reqs[p].status = 200
                                /\ Rows(Session0.user_id) = {StoredAs(p)}
C5_Witness ==
    /\ RotateRace
    /\ \E p, q \in Rotations : /\ reqs[p].status = 200
                               /\ reqs[q].status = 500
                               /\ reqs[q].deleted # {}
                               /\ Rows(Session0.user_id) = {StoredAs(p)}

\* C6: a SaveAuthTokens call that deleted the owner's bundle and then
\* returns an error leaves the owner with a bundle.
C6_FailedSaveKeepsBundle ==
    [][\A p \in Procs :
          (/\ reqs[p].pc = "SaveInsert"
           /\ reqs[p].deleted # {}
           /\ reqs'[p].pc = "done"
           /\ reqs'[p].status = 500)
              => {t \in authTokens' : t.user_id = reqs[p].userId} # {}]_vars

\* C7: Protected and Logout answer 200 only if at their lookup the table
\* held a bundle with the presented access and CSRF secrets whose expiry had
\* not passed, and they act for the owner of that bundle.
C7_AuthorizationSound ==
    \A p \in Procs :
        (Done(p) /\ Authorizing(p) /\ reqs[p].status = 200) =>
            /\ reqs[p].seen = "fresh"
            /\ reqs[p].owner \in UserIds
            /\ (reqs[p].kind = "Protected" =>
                  reqs[p].msg = "Protected resource accessed by user: " \o Username(reqs[p].owner))
            /\ (reqs[p].kind = "Logout" =>
                  \A d \in reqs[p].deleted : d.user_id = reqs[p].owner)
C7_Witness ==
    \E p, q \in Procs :
        /\ Done(p) /\ reqs[p].kind = "Protected" /\ reqs[p].status = 200
        /\ reqs[p].owner = 1
        /\ Done(q) /\ reqs[q].kind = "Logout" /\ reqs[q].status = 200
        /\ reqs[q].deleted # {}

\* The row that request p read, the CSRF secret it presented, and the clock
\* when it answered.
ReadRow(p) == Done(p) /\ Authorizing(p) /\ reqs[p].token # NoRow
RightCSRF(p) == reqs[p].csrf = reqs[p].token.csrf_token

\* C8: a request whose access secret resolves to an expired bundle and whose
\* CSRF secret is wrong is answered "Access token expired".
C8_ExpiryBeforeCSRF ==
    \A p \in Procs :
        (ReadRow(p) /\ ~RightCSRF(p) /\ reqs[p].at > reqs[p].token.expires_at)
            => reqs[p].msg = "Access token expired"

\* C9: at every time strictly later than the expiry of the bundle they read,
\* Protected and Logout answer the correct pair with 401 "Access token
\* expired", and the table is left as it was.
C9_ExpiredRejected ==
    [][\A p \in Procs :
          (/\ reqs[p].pc \in {"ProtectedCheck", "LogoutCheck"}
           /\ reqs'[p].pc = "done"
           /\ reqs[p].token # NoRow
           /\ reqs[p].csrf = reqs[p].token.csrf_token
           /\ now > reqs[p].token.expires_at)
              => /\ reqs'[p].status = 401
                 /\ reqs'[p].msg = "Access token expired"
                 /\ authTokens' = authTokens]_vars
C9_Witness ==
    \E p \in Procs :
        /\ ReadRow(p) /\ RightCSRF(p) /\ reqs[p].kind = "Logout"
        /\ reqs[p].at > reqs[p].token.expires_at
        /\ reqs[p].msg = "Access token expired"
        /\ reqs[p].token \in authTokens

\* C10: a request with the correct pair that is checked at now >= expiresAt
\* of the bundle it read is answered "Access token expired".
C10_ExpiryInclusive ==
    \A p \in Procs :
        (ReadRow(p) /\ RightCSRF(p) /\ reqs[p].at >= reqs[p].token.expires_at)
            => reqs[p].msg = "Access token expired"

\* C11: a Protected or Logout request with an empty access or CSRF secret is
\* answered 401 with a missing-credential message in its first step, without
\* a call to the store (no row read, no store error), and the table is left
\* as it was.
C11_MissingRejectedFirst ==
    [][\A p \in Procs :
          (/\ reqs[p].pc = "idle"
           /\ reqs'[p].kind \in {"Protected", "Logout"}
           /\ reqs'[p].access = Empty \/ reqs'[p].csrf = Empty)
              => /\ reqs'[p].pc = "done"
                 /\ reqs'[p].status = 401
                 /\ reqs'[p].msg \in {"Missing access token", "Missing CSRF token"}
                 /\ reqs'[p].token = NoRow
                 /\ ~reqs'[p].fault
                 /\ authTokens' = authTokens]_vars
C11_Witness ==
    \E p, q \in Procs :
        /\ Done(p) /\ reqs[p].kind = "Logout"
        /\ reqs[p].access = Session0.access_token /\ reqs[p].csrf = Empty
        /\ reqs[p].msg = "Missing CSRF token"
        /\ Done(q) /\ reqs[q].kind = "Protected"
        /\ reqs[q].access = Empty /\ reqs[q].msg = "Missing access token"
        /\ Session0 \in authTokens

\* C12: a Protected or Logout request with an unknown access secret and one
\* with a stored access secret and a wrong CSRF secret get the same status
\* and the same error message.
C12_SameInvalidSignal ==
    \A p, q \in Procs :
        (/\ Done(p) /\ Done(q) /\ Authorizing(p) /\ reqs[q].kind = reqs[p].kind
         /\ MissingHeader(reqs[p].access, reqs[p].csrf) = "" /\ ~reqs[p].fault
         /\ reqs[p].token = NoRow
         /\ ReadRow(q) /\ ~RightCSRF(q))
            => /\ reqs[p].status = reqs[q].status
               /\ reqs[p].msg = reqs[q].msg

\* The rotations that answered 200.
Rotated(p) == Done(p) /\ reqs[p].kind = "RefreshToken" /\ reqs[p].status = 200

\* C13: the bundle of every successful rotation has the refresh secret of
\* the bundle that its SaveAuthTokens call replaced, an access secret and a
\* CSRF secret that differ from that bundle's, and an expiresAt that is not
\* earlier (the clock of the model is coarse: "later" is read as "not
\* earlier").
C13_RotationPreservesRefresh ==
    \A p \in Procs :
        Rotated(p) =>
            \A d \in reqs[p].deleted :
                /\ reqs[p].body.refresh_token = d.refresh_token
                /\ reqs[p].body.access_token # d.access_token
                /\ reqs[p].body.csrf_token # d.csrf_token
                /\ reqs[p].body.expires_at >= d.expires_at

\* C14: a Protected or Logout request that starts after a rotation answered
\* 200 and presents the access secret of the bundle the rotation read finds
\* no row and fails the gates as "Invalid access token"; one that presents
\* the rotation's new pair while its row is stored and not expired reads
\* that row and passes the gates.
C14_OldAccessDeadNewPairLive ==
    [][\A p, q \in Procs :
          (/\ Rotated(p)
           /\ reqs[q].pc = "idle"
           /\ reqs'[q].kind \in {"Protected", "Logout"}
           /\ MissingHeader(reqs'[q].access, reqs'[q].csrf) = ""
           /\ ~reqs'[q].fault)
              => /\ reqs'[q].access = reqs[p].token.access_token
                    => /\ reqs'[q].token = NoRow
                       /\ Gate(reqs'[q]) = "Invalid access token"
                 /\ (/\ reqs'[q].access = reqs[p].body.access_token
                     /\ reqs'[q].csrf = reqs[p].body.csrf_token
                     /\ StoredAs(p) \in authTokens
                     /\ ~After(reqs[p].body.expires_at))
                    => /\ reqs'[q].token = StoredAs(p)
                       /\ Gate(reqs'[q]) = ""]_vars
C14_Witness ==
    \E p, q \in Procs :
        /\ Rotated(p)
        /\ Done(q) /\ reqs[q].kind = "Protected" /\ ~reqs[q].gap
        /\ reqs[q].access = reqs[p].token.access_token
        /\ reqs[q].csrf = reqs[p].token.csrf_token
        /\ reqs[q].at <= reqs[p].token.expires_at
        /\ reqs[q].status = 401 /\ reqs[q].msg = "Invalid access token"
        /\ StoredAs(p) \in authTokens

C16_RefreshLookupFinds ==
    [][\A p \in Procs :
          (/\ reqs[p].pc = "idle"
           /\ reqs'[p].kind = "RefreshToken"
           /\ ~reqs'[p].fault)
              => \A t \in authTokens :
                    (/\ t.refresh_token = reqs'[p].refresh
                     /\ Username(t.user_id) = reqs'[p].username)
                        => /\ reqs'[p].pc = "RefreshGenerate"
                           /\ reqs'[p].token = t]_vars

\* The rotations that answered 200 with tokens generated after the expiry of
\* the bundle they read.
RotatedLate(p) ==
    /\ Rotated(p)
    /\ reqs[p].body.expires_at - AccessTokenDuration > reqs[p].token.expires_at

\* C17: a RefreshToken request that presents the refresh secret of a stored
\* bundle in the name of its owner after the bundle's expiresAt passes the
\* token check (unless a store call fails); and once such a rotation has
\* answered 200, a Protected or Logout request with its new pair, while that
\* bundle is stored and not expired, reads it and passes the gates.
C17_RefreshIgnoresExpiry ==
    [][\A p \in Procs :
          /\ (/\ reqs[p].pc = "idle"
              /\ reqs'[p].kind = "RefreshToken"
              /\ ~reqs'[p].fault)
                 => \A t \in authTokens :
                       (/\ t.refresh_token = reqs'[p].refresh
                        /\ Username(t.user_id) = reqs'[p].username
                        /\ now > t.expires_at)
                           => /\ reqs'[p].pc = "RefreshGenerate"
                              /\ reqs'[p].token = t
          /\ \A q \in Procs :
                (/\ RotatedLate(p)
                 /\ reqs[q].pc = "idle"
                 /\ reqs'[q].kind \in {"Protected", "Logout"}
                 /\ ~reqs'[q].fault
                 /\ reqs'[q].access = reqs[p].body.access_token
                 /\ reqs'[q].csrf = reqs[p].body.csrf_token
                 /\ StoredAs(p) \in authTokens
                 /\ ~After(reqs[p].body.expires_at))
                    => /\ reqs'[q].token = StoredAs(p)
                       /\ Gate(reqs'[q]) = ""]_vars
C17_Witness ==
    /\ reqs[1].kind = "Protected" /\ Done(1)
    /\ reqs[1].access = Session0.access_token /\ reqs[1].csrf = Session0.csrf_token
    /\ reqs[1].seen = "stale" /\ reqs[1].msg = "Access token expired"
    /\ RotatedLate(2)
    /\ reqs[2].token = Session0
    /\ StoredAs(2) \in authTokens

\* The logins that answered 200, and the clock reading at which a login
\* generated its tokens (its first step).
Issued(p) == Done(p) /\ reqs[p].kind = "Login" /\ reqs[p].status = 200
IssuedAt(p) == reqs[p].tokens.expires_at - AccessTokenDuration

\* C18: when a login of a user has answered 200 and a second login of the
\* same user, started at a later clock reading, has answered 200 too, with
\* no other request than Protected ones about, the user's only stored bundle
\* is that of the second login and no secret of the first login's bundle
\* resolves.
C18_SecondLoginReplacesFirst ==
    \A p, q \in Procs :
        (/\ Issued(p) /\ Issued(q)
         /\ reqs[p].userId = reqs[q].userId
         /\ reqs[p].at < IssuedAt(q)
         /\ \A r \in Procs \ {p, q} : reqs[r].kind \in {"none", "Protected"})
            => /\ Rows(reqs[q].userId) = {StoredAs(q)}
               /\ ~Resolves(StoredAs(p))
C18_Witness ==
    \E p, q \in Procs :
        /\ Issued(p) /\ Issued(q)
        /\ reqs[p].userId = reqs[q].userId
        /\ reqs[p].at < IssuedAt(q)
        /\ reqs[q].deleted = {StoredAs(p)}
        /\ authTokens = {StoredAs(q)}

\* C20: in every reachable state each stored bundle has the access secret
\* and the CSRF secret of one GenerateAuthTokens call, the expiresAt that
\* the request which drew them computed, and the refresh secret either of
\* that call or of the row that the rotation which drew them had read.
C20_OneGenerationPerBundle ==
    \A t \in authTokens :
        \E g \in 0..(nextGen - 1) :
            /\ t.access_token = AccessOf(g)
            /\ t.csrf_token = CSRFOf(g)
            /\ \/ t = Session0
               \/ \E p \in Procs :
                     /\ reqs[p].kind = "Login"
                     /\ t = [reqs[p].tokens EXCEPT !.user_id = reqs[p].userId]
                     /\ t.refresh_token = RefreshOf(g)
               \/ \E p \in Procs :
                     /\ reqs[p].kind = "RefreshToken"
                     /\ t = [reqs[p].tokens EXCEPT !.user_id = reqs[p].userId]
                     /\ t.refresh_token = reqs[p].token.refresh_token
C20_Witness ==
    \E p, q \in Procs :
        /\ Rotated(p) /\ Issued(q)
        /\ reqs[p].deleted = {StoredAs(q)}
        /\ authTokens = {StoredAs(p)}
        /\ reqs[p].body.refresh_token = Session0.refresh_token


\* C19: a logout removes or clears only the bundle of the owner that its
\* authorization resolved: in the in-memory program, the step of logout that
\* resets tokens changes no entry of the map but that of the user whose
\* tokens the presented headers matched.
C19_LogoutClearsOnlyAuthorizedOwner ==
    [][\A p \in Procs :
         (reqs[p].pc = "logoutClear" /\ reqs'[p].pc = "done" /\ reqs'[p].status = 200)
         => \A u \in DOMAIN database :
              database'[u] # database[u] => u = reqs[p].matched]_vars

\* C21: operations for different owners do not interfere: in the in-memory
\* program, a step changes or removes the map entry of a user only when it is
\* the writing step of a request that names that user.
C21_OwnersDoNotInterfere ==
    [][\A u \in DOMAIN database :
         (u \notin DOMAIN database' \/ database'[u] # database[u])
         => \E p \in Procs : /\ reqs[p].pc \in Writing
                             /\ reqs'[p].pc = "done"
                             /\ reqs[p].username = u]_vars

\* C22: in every reachable state no two stored bundles share an access secret
\* and no two share a refresh secret, so a lookup by either secret resolves
\* to at most one bundle and one owner.
C22_SecretsUnique ==
    /\ \A t1, t2 \in authTokens :
         t1 # t2 => /\ t1.access_token # t2.access_token
                    /\ t1.refresh_token # t2.refresh_token
    /\ \A b \in Served :
         /\ Cardinality(GetAuthTokensByAccessToken(b.access_token)) <= 1
         /\ Cardinality(GetAuthTokensByRefreshToken(b.refresh_token)) <= 1

\* An INSERT was refused because its refresh secret is that of a stored row.
C22_Witness ==
    \E p \in Procs :
        /\ Done(p) /\ reqs[p].kind = "RefreshToken"
        /\ reqs[p].status = 500 /\ ~reqs[p].fault
        /\ \E t \in authTokens : t.refresh_token = reqs[p].tokens.refresh_token

\* C23: for every bundle that GenerateAuthTokens creates, with any
\* configuration Load can produce, expiresAt is strictly later than the
\* creation instant.
C23_ExpiresAfterCreation ==
    [][\A p \in Procs :
         reqs'[p].tokens # reqs[p].tokens => reqs'[p].tokens.expires_at > now]_vars

\* C24: no operation changes a field of a stored bundle in place: a step
\* only removes rows or only adds one, a row that is in the table before and
\* after a step (the access secret names it) has the same fields, and the
\* row a rotation inserts is a new one, with an access secret other than
\* that of the bundle the rotation read.
C24_NoUpdateInPlace ==
    [][/\ authTokens' \subseteq authTokens \/ authTokens \subseteq authTokens'
       /\ \A t \in authTokens, u \in authTokens' :
            t.access_token = u.access_token => t = u
       /\ \A p \in Procs :
            (reqs[p].pc = "SaveInsert" /\ reqs'[p].pc = "done" /\ reqs[p].kind = "RefreshToken")
            => \A u \in authTokens' \ authTokens :
                 /\ u.access_token # reqs[p].token.access_token
                 /\ u.expires_at = reqs[p].tokens.expires_at]_vars

\* A rotation has replaced the bundle it read by one with a later expiry,
\* and the bundle it read is gone.
C24_Witness ==
    \E p \in Procs :
        /\ Rotated(p)
        /\ StoredAs(p) \in authTokens
        /\ reqs[p].token \notin authTokens
        /\ StoredAs(p).expires_at > reqs[p].token.expires_at

\* C25: secret generation never returns an empty value in the place of a
\* secret: in the in-memory program, every bundle that login or refreshToken
\* has stored or has surfaced in a response has three non-empty secrets.
C25_NoEmptySecret ==
    /\ \A u \in DOMAIN database :
         database[u].Tokens # NoRow
         => /\ database[u].Tokens.access_token # Empty
            /\ database[u].Tokens.refresh_token # Empty
            /\ database[u].Tokens.csrf_token # Empty
    /\ \A p \in Procs :
         (Done(p) /\ reqs[p].body # NoRow)
         => /\ reqs[p].body.access_token # Empty
            /\ reqs[p].body.refresh_token # Empty
            /\ reqs[p].body.csrf_token # Empty

\* The request p ends, in this step, on an error of the call named.
FailsIn(p, call) ==
    /\ ~Done(p) /\ reqs'[p].pc = "done" /\ reqs'[p].fault
    /\ reqs'[p].calls # <<>>
    /\ reqs'[p].calls[Len(reqs'[p].calls)] = call

\* C26: issuance is all-or-nothing: when GenerateAuthTokens fails, it returns
\* an empty bundle, and the Login or RefreshToken request ends with the
\* internal error, has stored and removed nothing, surfaces no secret and
\* calls the store no more; the table is as it was.
C26_IssuanceAllOrNothing ==
    [][\A p \in Procs :
         FailsIn(p, "GenerateAuthTokens")
         => /\ reqs'[p].tokens = NoRow
            /\ reqs'[p].status = 500 /\ reqs'[p].msg = "Internal server error"
            /\ reqs'[p].body = NoRow
            /\ reqs'[p].deleted = {}
            /\ authTokens' = authTokens]_vars

\* The generator has failed in a rotation of a stored bundle, which is still
\* stored, and in a login.
C26_Witness ==
    /\ \E p \in Procs :
         /\ Done(p) /\ reqs[p].kind = "RefreshToken" /\ reqs[p].fault
         /\ reqs[p].calls[Len(reqs[p].calls)] = "GenerateAuthTokens"
         /\ reqs[p].token \in authTokens
    /\ \E p \in Procs :
         /\ Done(p) /\ reqs[p].kind = "Login" /\ reqs[p].fault
         /\ reqs[p].calls[Len(reqs[p].calls)] = "GenerateAuthTokens"

\* The request p returns, in this step, from a DeleteAuthTokens call that
\* reported no error.
Deletes(p) ==
    /\ reqs[p].pc = "LogoutCheck" /\ reqs'[p].pc = "done" /\ ~reqs'[p].fault
    /\ reqs'[p].calls # <<>>
    /\ reqs'[p].calls[Len(reqs'[p].calls)] = "DeleteAuthTokens"

\* C27: delete is idempotent: a DeleteAuthTokens call for an owner with no
\* stored bundle leaves the table as it is and the request answers 200, and
\* after any DeleteAuthTokens call the same call once more would leave the
\* table as the first left it.
C27_DeleteIdempotent ==
    [][\A p \in Procs :
         Deletes(p)
         => /\ Rows(reqs[p].token.user_id) = {}
                 => (authTokens' = authTokens /\ reqs'[p].status = 200)
            /\ Rows(reqs[p].token.user_id)' = {}
            /\ DeleteWhereUser(reqs[p].token.user_id)' = authTokens']_vars

\* A logout has called DeleteAuthTokens for an owner whose bundle another
\* logout had deleted already, and has answered 200.
C27_Witness ==
    \E p, q \in Procs :
        /\ p # q
        /\ Done(p) /\ reqs[p].kind = "Logout" /\ reqs[p].status = 200 /\ reqs[p].deleted # {}
        /\ Done(q) /\ reqs[q].kind = "Logout" /\ reqs[q].status = 200 /\ reqs[q].deleted = {}
        /\ reqs[q].token \in reqs[p].deleted

\* The calls that request p has made are all different.
CallsOnce(r) == \A i, j \in 1..Len(r.calls) : r.calls[i] = r.calls[j] => i = j

\* C28: the handlers never retry: a request calls each store operation (and
\* the generator) at most once, a call that returns an error ends the request
\* with 500 "Internal server error", and a request that has ended makes no
\* further call.
C28_NoRetry ==
    [][\A p \in Procs :
         /\ CallsOnce(reqs'[p])
         /\ reqs'[p].fault
              => /\ reqs'[p].pc = "done"
                 /\ reqs'[p].status = 500 /\ reqs'[p].msg = "Internal server error"
         /\ Done(p) => reqs'[p] = reqs[p]]_vars

\* A SaveAuthTokens call has failed after its DELETE had removed the owner's
\* bundle, and the request has ended there.
C28_Witness ==
    \E p \in Procs :
        /\ Done(p) /\ reqs[p].fault /\ reqs[p].deleted # {}
        /\ Len(reqs[p].calls) >= 3
        /\ reqs[p].calls[Len(reqs[p].calls)] = "SaveAuthTokens"

\* C29: the comparison of the presented anti-forgery secret with the stored
\* one takes a time that does not depend on the place of the first mismatch:
\* when two secrets of the same length differ, the comparison has examined
\* all their units.
C29_CSRFCompareConstantTime ==
    (cmp.op = "==" /\ cmp.result = "differ" /\ Len(cmp.x) = Len(cmp.y))
    => cmp.i = Len(cmp.x)

\* The Login or RefreshToken request p writes its response in this step.
Answers(p) ==
    /\ reqs'[p].kind \in {"Login", "RefreshToken"}
    /\ ~Done(p) /\ reqs'[p].pc = "done"

\* C30: secrets are surfaced only when persisted: a Login or RefreshToken
\* response with status 200 carries the secrets and the expiresAt of the row
\* that the request has stored for its owner, which is in the table then;
\* every other response, those after a failed SaveAuthTokens among them,
\* carries no secret.
C30_SurfacedOnlyWhenPersisted ==
    [][\A p \in Procs :
         Answers(p)
         => IF reqs'[p].status = 200
            THEN /\ reqs[p].pc = "SaveInsert"
                 /\ [reqs'[p].tokens EXCEPT !.user_id = reqs'[p].userId] \in authTokens'
                 /\ [reqs'[p].tokens EXCEPT !.user_id = reqs'[p].userId] \notin authTokens
                 /\ reqs'[p].body = [reqs'[p].tokens EXCEPT !.user_id = 0]
            ELSE reqs'[p].body = NoRow]_vars

\* A SaveAuthTokens call has failed for a request that held generated tokens,
\* and another request has stored and surfaced its bundle.
C30_Witness ==
    \E p, q \in Procs :
        /\ Done(p) /\ reqs[p].status = 500 /\ reqs[p].tokens # NoRow
        /\ reqs[p].calls[Len(reqs[p].calls)] = "SaveAuthTokens"
        /\ reqs[p].body = NoRow
        /\ Done(q) /\ reqs[q].status = 200 /\ reqs[q].kind \in {"Login", "RefreshToken"}
        /\ StoredAs(q) \in authTokens
        /\ reqs[q].body.access_token = StoredAs(q).access_token

\* The users with an active bundle, by name, in each program.
ActiveRelational == {Username(t.user_id) : t \in authTokens}
ActiveInMemory == {u \in DOMAIN database : database[u].Tokens # NoRow}

\* Request p was accepted.
Accepted(p) == reqs[p].status \in {200, 201}

\* No call outside the programs failed in the two runs of a request: no
\* store call in the relational run q, no rand.Read in the in-memory run p.
NoFault(q, p) ==
    /\ ~reqs[q].fault
    /\ reqs[p].tokens # NoRow
         => /\ reqs[p].tokens.access_token # Empty
            /\ reqs[p].tokens.csrf_token # Empty
            /\ reqs[p].kind = "login" => reqs[p].tokens.refresh_token # Empty

\* C31: the in-memory program and the relational program implement the same
\* contract: a request served by both, in sequence and from the same state,
\* is accepted by both or rejected by both, and the same users have an active
\* bundle afterwards.
C31_SameContract ==
    \A p \in Procs :
        (~Relational(p) /\ Done(p) /\ Done(p - 1) /\ NoFault(p - 1, p))
        => /\ Accepted(p) <=> Accepted(p - 1)
           /\ ActiveInMemory = ActiveRelational

\* C32: in the in-memory program a refresh mints a bundle only for a user who
\* holds one: no refreshToken request passes refreshAuthTokens, stores tokens
\* or answers 200 when the tokens it read for the user are the zero
\* AuthTokens.
C32_NoRefreshWithoutBundle ==
    \A p \in Procs :
        (reqs[p].kind = "refreshToken" /\ reqs[p].token = NoRow)
        => /\ reqs[p].pc # "refreshStore"
           /\ reqs[p].status # 200
           /\ reqs[p].body = NoRow

\* C33: the refresh secret of a user's stored bundle is that of the user's
\* most recent successful login: when a login of the user has answered 200
\* and is the only login of that user among the requests, every bundle
\* stored for the user has the refresh secret that login generated.
C33_RefreshSecretOfLastLogin ==
    \A p \in Procs :
        (/\ Issued(p)
         /\ \A q \in Procs \ {p} : ~(reqs[q].kind = "Login" /\ reqs[q].userId = reqs[p].userId))
        => \A t \in Rows(reqs[p].userId) : t.refresh_token = reqs[p].tokens.refresh_token

\* The login request r names no registered user or carries a password other
\* than the user's.
BadLogin(r) ==
    IF r.kind = "Login"
    THEN \A u \in users : u.username = r.username
                          => u.hashed_password # HashPassword(r.password)
    ELSE \/ r.username \notin DOMAIN database
         \/ database[r.username].HashedPassword # HashPassword(r.password)

\* C34: a failed login changes nothing and reveals nothing about the cause: in
\* both programs a login with an unknown username and one with a wrong
\* password get the same response, 401 "Invalid username or password" and no
\* secret (unless the lookup of the user fails: 500), no tokens are generated
\* and no user and no stored bundle changes.
C34_FailedLoginChangesNothing ==
    [][\A p \in Procs :
         (reqs[p].pc = "idle" /\ reqs'[p].kind \in {"Login", "login"} /\ BadLogin(reqs'[p]))
         => /\ reqs'[p].pc = "done"
            /\ \/ reqs'[p].fault /\ reqs'[p].status = 500
               \/ reqs'[p].status = 401 /\ reqs'[p].msg = "Invalid username or password"
            /\ reqs'[p].body = NoRow
            /\ reqs'[p].tokens = NoRow
            /\ nextGen' = nextGen
            /\ authTokens' = authTokens /\ database' = database /\ users' = users]_vars

\* In each program a login with an unknown username and a login with a wrong
\* password for the user who holds a bundle have been answered, with one
\* response, and the bundle is still stored.
C34_Witness ==
    \/ /\ reqs[1].kind = "Login" /\ reqs[1].username = "username3"
       /\ reqs[2].kind = "Login" /\ reqs[2].username = "username1"
       /\ reqs[2].password = "wrongpass"
       /\ reqs[1].status = 401 /\ reqs[2].status = 401 /\ reqs[1].msg = reqs[2].msg
       /\ Session0 \in authTokens
    \/ /\ reqs[1].kind = "login" /\ reqs[1].username = "username3"
       /\ reqs[2].kind = "login" /\ reqs[2].username = "username1"
       /\ reqs[2].password = "wrongpass"
       /\ reqs[1].status = 401 /\ reqs[2].status = 401 /\ reqs[1].msg = reqs[2].msg
       /\ database["username1"].Tokens = MemSession0

\* The request r passed every gate of its program's authorization: both
\* secrets are present, the access secret names a bundle (the row the handler
\* read, or an entry of the map), the CSRF secret is that bundle's and the
\* bundle has not expired.
PassedEveryGate(r) ==
    /\ r.access # Empty /\ r.csrf # Empty
    /\ IF r.kind = "Logout"
       THEN /\ r.token # NoRow
            /\ r.token.access_token = r.access
            /\ r.token.csrf_token = r.csrf
            /\ ~After(r.token.expires_at)
       ELSE \E u \in DOMAIN database :
               /\ database[u].Tokens.access_token = r.access
               /\ database[u].Tokens.csrf_token = r.csrf
               /\ ~After(database[u].Tokens.expires_at)

\* C35: authorization is read-only. No step of a Protected request, in either
\* program and whatever its outcome, changes the users or the stored bundles;
\* a step of a Logout request changes them only when the request passed every
\* authorization gate.
C35_AuthorizationReadOnly ==
    [][\A p \in Procs :
         reqs'[p] # reqs[p]
         => /\ reqs'[p].kind \in {"Protected", "protected"}
               => users' = users /\ authTokens' = authTokens /\ database' = database
            /\ (/\ reqs'[p].kind \in {"Logout", "logout"}
                /\ ~(users' = users /\ authTokens' = authTokens /\ database' = database))
               => PassedEveryGate(reqs[p])]_vars

\* A logout with the right access secret and a wrong CSRF secret was refused by
\* both programs and the user's bundle is still stored in both.
C35_Witness ==
    /\ reqs[1].kind = "Logout" /\ reqs[1].status = 401
    /\ reqs[1].msg = "Invalid CSRF token"
    /\ reqs[2].kind = "logout" /\ reqs[2].status = 401
    /\ Session0 \in authTokens
    /\ database["username1"].Tokens = MemSession0

\* The username names a user of the program that serves a request of this kind.
Exists(kind, username) ==
    IF kind = "Register"
    THEN \E u \in users : u.username = username
    ELSE username \in DOMAIN database

ErrServerClosed == "http: Server closed"
ErrListen == "listen tcp: bind: address already in use"
ErrAccept == "accept tcp: use of closed network connection"
ErrClose == "close tcp: use of closed network connection"
DeadlineExceeded == "context deadline exceeded"

\* errChan := make(chan error, 1); stop := make(chan os.Signal, 1)
ErrChanCap == 1
StopCap == 1

\* A goroutine that sends whatever error ListenAndServe returned.
ReportedAny(err) == err # ""

\* The goroutine's condition: err != nil && err != http.ErrServerClosed.
Reported(err) == err # "" /\ err # ErrServerClosed

\* Everything but the server's own state.
served == <<users, authTokens, now, nextGen, reqs, loggedOut, database, cfg, cmp>>

\* A handler is running.
InFlight == \E p \in Procs : reqs[p].pc \notin {"idle", "done"}

\* The listener accepts connections; the process has not left Start.
Accepting == srv.listener = "Serve" /\ ~srv.inShutdown
Running == srv.main # "returned"

\* The goroutine calls s.server.ListenAndServe(): after Shutdown it returns
\* ErrServerClosed at once; otherwise net.Listen fails or Serve begins.
ListenAndServe ==
    /\ Running /\ srv.listener = "go"
    /\ \/ /\ srv.inShutdown
          /\ srv' = [srv EXCEPT !.listener = "returned", !.err = ErrServerClosed]
       \/ /\ ~srv.inShutdown
          /\ \/ srv' = [srv EXCEPT !.listener = "Serve"]
             \/ srv' = [srv EXCEPT !.listener = "returned", !.err = ErrListen]
    /\ UNCHANGED served

\* Serve returns because Shutdown closed the listener.
ServeClosed ==
    /\ Running /\ srv.listener = "Serve" /\ srv.inShutdown
    /\ srv' = [srv EXCEPT !.listener = "returned", !.err = ErrServerClosed]
    /\ UNCHANGED served

\* Serve returns because Accept failed.
ServeFails ==
    /\ Running /\ srv.listener = "Serve"
    /\ srv' = [srv EXCEPT !.listener = "returned", !.err = ErrAccept]
    /\ UNCHANGED served

\* if err := ...; err != nil && err != http.ErrServerClosed
ListenReturn ==
    /\ Running /\ srv.listener = "returned"
    /\ srv' = [srv EXCEPT !.listener = IF Reported(srv.err) THEN "send" ELSE "exit"]
    /\ UNCHANGED served

\* errChan <- err: possible while the buffer has room.
Send ==
    /\ Running /\ srv.listener = "send"
    /\ Len(srv.errChan) < ErrChanCap
    /\ srv' = [srv EXCEPT !.errChan = Append(srv.errChan, srv.err), !.listener = "exit"]
    /\ UNCHANGED served

\* os.Interrupt or SIGTERM arrives: signal.Notify's send does not block, the
\* signal is dropped when the buffer is full.
Signal ==
    /\ Running /\ Len(srv.stop) < StopCap
    /\ \E sig \in {"interrupt", "terminated"} :
         srv' = [srv EXCEPT !.stop = Append(srv.stop, sig)]
    /\ UNCHANGED served

\* case err := <-errChan: return err
SelectErr ==
    /\ srv.main = "select" /\ srv.errChan # <<>>
    /\ srv' = [srv EXCEPT !.main = "returned", !.via = "errChan",
                          !.result = Head(srv.errChan), !.errChan = Tail(srv.errChan)]
    /\ UNCHANGED served

\* case <-stop:
SelectStop ==
    /\ srv.main = "select" /\ srv.stop # <<>>
    /\ srv' = [srv EXCEPT !.main = "Shutdown", !.via = "stop", !.stop = Tail(srv.stop)]
    /\ UNCHANGED served

\* s.server.Shutdown(ctx) begins: the server is marked and its listener closed.
Shutdown ==
    /\ srv.main = "Shutdown"
    /\ srv' = [srv EXCEPT !.main = "wait", !.inShutdown = TRUE]
    /\ UNCHANGED served

\* Shutdown returns: the listener's close error or nil once no handler is
\* running, ctx.Err() when the context ends first; Start returns that value.
ShutdownReturn ==
    /\ srv.main = "wait"
    /\ \E e \in IF InFlight THEN {DeadlineExceeded} ELSE {"nil", ErrClose} :
         srv' = [srv EXCEPT !.main = "returned", !.result = e]
    /\ UNCHANGED served

\* Start has just been called: the goroutine exists and has not run yet, the
\* signals are being delivered to stop; the handlers serve Protected requests
\* while the listener accepts and the process runs.
InitStart ==
    /\ srv = [Serve EXCEPT !.listener = "go"]
    /\ cfg = DefaultCfg
    /\ cmp = NoCmp
    /\ database = NoDatabase
    /\ users = InitUsers
    /\ authTokens = {Session0}
    /\ now \in 0 .. MaxTime
    /\ nextGen = 1
    /\ reqs = [p \in Procs |-> Idle]
    /\ loggedOut = {}

NextStart ==
    \/ ListenAndServe
    \/ ServeClosed
    \/ ServeFails
    \/ ListenReturn
    \/ Send
    \/ Signal
    \/ SelectErr
    \/ SelectStop
    \/ Shutdown
    \/ ShutdownReturn
    \/ \E p \in Procs : Accepting /\ ProtectedLookup(p)
    \/ \E p \in Procs : Running /\ ProtectedCheck(p)

SpecStart == InitStart /\ [][NextStart]_vars

\* The scheduler runs a goroutine that can take a step, a select with a ready
\* case proceeds, and Shutdown's context ends after 10 seconds; signals and
\* failures of the listener are up to the environment.
FairStart ==
    /\ WF_vars(ListenAndServe) /\ WF_vars(ServeClosed) /\ WF_vars(ListenReturn)
    /\ WF_vars(Send) /\ WF_vars(SelectErr) /\ WF_vars(SelectStop)
    /\ WF_vars(Shutdown) /\ WF_vars(ShutdownReturn)

SpecStartFair == SpecStart /\ FairStart

\* C37: Server.Start terminates cleanly. The goroutine's send never finds
\* errChan full (at most one value is ever sent), also after the signal branch
\* was taken; http.ErrServerClosed is neither sent nor returned; a return
\* through errChan returns the listener's error, a return through stop comes
\* after Shutdown with Shutdown's result; and once the listener has failed or
\* a signal has arrived, Start returns.
C37_StartTerminates ==
    /\ [](/\ Len(srv.errChan) <= ErrChanCap
          /\ srv.listener = "send" => Len(srv.errChan) < ErrChanCap
          /\ \A i \in 1 .. Len(srv.errChan) : srv.errChan[i] # ErrServerClosed
          /\ srv.result # ErrServerClosed
          /\ (srv.main = "returned" /\ srv.via = "errChan")
             => srv.result = srv.err /\ srv.result \in {ErrListen, ErrAccept}
          /\ (srv.main = "returned" /\ srv.via = "stop")
             => srv.inShutdown /\ srv.result \in {"nil", ErrClose, DeadlineExceeded})
    /\ (srv.listener = "send") ~> (srv.main = "returned")
    /\ (srv.stop # <<>>) ~> (srv.main = "returned")

\* The listener failed after the signal branch was taken: Shutdown is under
\* way, the goroutine has sent Accept's error into errChan without blocking,
\* and Start has returned Shutdown's result.
C37_Witness ==
    /\ srv.main = "returned" /\ srv.via = "stop"
    /\ srv.listener = "exit" /\ srv.err = ErrAccept
    /\ srv.errChan = <<ErrAccept>>

====
